---- MODULE Spec2Model ----
(***************************************************************************)
(* A model of tracing-subscriber's subscribe.rs: the `Subscribe` trait     *)
(* with its default methods, the `Layered` composition node in its two     *)
(* modes (`impl Collect for Layered<S, C>` and `impl Subscribe<C> for      *)
(* Layered<A, B, C>`), and the `Context` handed to subscribers.            *)
(*                                                                         *)
(* A chain is a tree of records.  Every call on the outermost node is one  *)
(* action; the calls it makes on the leaf subscribers and on the leaf      *)
(* collector are appended, in invocation order, to `log`.                  *)
(***************************************************************************)
EXTENDS Integers, Sequences, FiniteSets, TLC

\* Largest number of leaf subscribers in a chain.
MaxObservers == 3
\* Number of span ids the collector can mint.
MaxSpans == 2
\* Largest reference count the collector keeps for one span.
MaxRefs == 3

VARIABLES chain, col, env, log, result, op, threads

vars == <<chain, col, env, log, result, op, threads>>

----------------------------------------------------------------------------
\* Option<T>: None is the empty sequence, Some(x) a sequence of one element.

None == <<>>

Some(x) == <<x>>

\* Interest is a tri-state (tracing_core::collect::Interest).
Interest == {"always", "sometimes", "never"}

\* LevelFilter, least verbose first: the derived order of LevelFilter.
LevelFilters == <<"OFF", "ERROR", "WARN", "INFO", "DEBUG", "TRACE">>

LevelRank(l) == CHOOSE i \in 1..Len(LevelFilters) : LevelFilters[i] = l

\* The hints the participants of this model answer with.
Hints == {None, Some("ERROR"), Some("WARN"), Some("DEBUG")}

----------------------------------------------------------------------------
\* The ownership tree.

\* A leaf subscriber; `id` is the position at which it was added.
Subscriber(i) == [kind |-> "Subscriber", id |-> i]

\* Option<S> where S is a leaf subscriber: Some(subscriber) and None.  The
\* absent value keeps the position it was added at.
Option_Some(i) == [kind |-> "Option", id |-> i, inner |-> Some(Subscriber(i))]

Option_None(i) == [kind |-> "Option", id |-> i, inner |-> None]

\* The authoritative collector at the innermost position.
Collector == [kind |-> "Collector"]

\* struct Layered { subscriber, inner }
Layered(subscriber, inner) ==
    [kind |-> "Layered", subscriber |-> subscriber, inner |-> inner]

\* Subscribe::and_then: the receiver becomes `inner`.
and_then(self, subscriber) == Layered(subscriber, self)

\* Subscribe::with_collector
with_collector(self, inner) == Layered(self, inner)

\* CollectorExt::with
with(self, subscriber) == with_collector(subscriber, self)

\* Every stack of n subscribers lo, lo+1, ..., added in that order with and_then.
RECURSIVE Stacks(_, _)
Stacks(lo, n) ==
    IF n = 1 THEN {Subscriber(lo)}
    ELSE UNION {{and_then(a, b) : a \in Stacks(lo, k), b \in Stacks(lo + k, n - k)}
                : k \in 1..(n - 1)}

\* Every sealed chain of n subscribers, added in the order 1..n.
RECURSIVE Sealed(_)
Sealed(n) ==
    {with_collector(s, Collector) : s \in Stacks(1, n)}
    \cup UNION {{with(c, s) : c \in Sealed(k), s \in Stacks(k + 1, n - k)}
                : k \in 1..(n - 1)}

Chains == UNION {Sealed(n) : n \in 1..MaxObservers}

\* The tree with the leaf subscribers in `present` given as Some(subscriber) and
\* those in `absent` replaced by None.
RECURSIVE Optional(_, _, _)
Optional(node, present, absent) ==
    CASE node.kind = "Subscriber" ->
            IF node.id \in present THEN Option_Some(node.id)
            ELSE IF node.id \in absent THEN Option_None(node.id)
            ELSE node
      [] node.kind = "Layered" ->
            Layered(Optional(node.subscriber, present, absent),
                    Optional(node.inner, present, absent))
      [] OTHER -> node

\* A node implements Collect when its innermost value is the collector.
RECURSIVE IsCollect(_)
IsCollect(node) ==
    \/ node.kind = "Collector"
    \/ node.kind = "Layered" /\ IsCollect(node.inner)

\* The leaf subscribers of a tree.
RECURSIVE Observers(_)
Observers(node) ==
    CASE node.kind = "Subscriber" -> {node.id}
      [] node.kind = "Option" -> IF node.inner = None THEN {} ELSE {node.id}
      [] node.kind = "Collector" -> {}
      [] OTHER -> Observers(node.subscriber) \cup Observers(node.inner)

\* The positions of a tree that hold None.
RECURSIVE Absent(_)
Absent(node) ==
    CASE node.kind = "Option" -> IF node.inner = None THEN {node.id} ELSE {}
      [] node.kind = "Layered" -> Absent(node.subscriber) \cup Absent(node.inner)
      [] OTHER -> {}

\* The leaves of a tree; the collector is participant 0.
Participants(node) ==
    Observers(node) \cup (IF IsCollect(node) THEN {0} ELSE {})

\* Every composition node of a tree.
RECURSIVE Nodes(_)
Nodes(node) ==
    IF node.kind = "Layered"
    THEN {node} \cup Nodes(node.subscriber) \cup Nodes(node.inner)
    ELSE {}

\* Every sealed chain in which one position holds an Option, Some or None.
\* These chains are one position shorter than the longest plain chains.
OptionChains ==
    UNION {UNION {{Optional(c, {i}, {}), Optional(c, {}, {i})} : i \in Observers(c)}
           : c \in UNION {Sealed(n) : n \in 1..(MaxObservers - 1)}}

----------------------------------------------------------------------------
\* Context and the log.

\* Context::none()
Context_none == [subscriber |-> None]

\* A node that hands its subscriber the empty context, and one that hands it
\* a view of the node itself.
ctx_mutant(self) == [subscriber |-> None]

ctx_self_mutant(self) == [subscriber |-> Some(self)]

\* Layered::ctx
ctx(self) == [subscriber |-> Some(self.inner)]

\* A call of a method that takes a Context, received by leaf subscriber `who`.
CtxCall(who, method, args, c, ret) ==
    [who |-> who, method |-> method, args |-> args, ctx |-> c, ret |-> ret]

\* A call of a method that takes no Context; the collector is participant 0.
Call(who, method, args, ret) ==
    [who |-> who, method |-> method, args |-> args, ret |-> ret]

\* What a call did: the leaf calls it made, in order, and what it returned.
Returns(l, r) == [log |-> l, ret |-> r]

Unit == "()"

----------------------------------------------------------------------------
\* Filtering: register_callsite, enabled, max_level_hint.
\*
\* `m` holds what each leaf answers for the metadata or hint being asked about:
\*   m.rc[i]   "default" when subscriber i does not override register_callsite,
\*             else the Interest it returns
\*   m.en[i]   what subscriber i's enabled returns
\*   m.crc, m.cen   the collector's register_callsite and enabled
\*   m.hint[p] the max_level_hint of participant p

\* Subscribe::enabled of a leaf subscriber.
Leaf_enabled(self, m, c) ==
    Returns(<<CtxCall(self.id, "enabled", <<>>, c, m.en[self.id])>>, m.en[self.id])

\* A default register_callsite that is never sure of an enabled callsite.
Leaf_register_callsite_mutant(self, m) ==
    IF m.rc[self.id] = "default"
    THEN LET e == Leaf_enabled(self, m, Context_none)
             r == IF e.ret THEN "sometimes" ELSE "never"
         IN Returns(<<Call(self.id, "register_callsite", <<>>, r)>> \o e.log, r)
    ELSE Returns(<<Call(self.id, "register_callsite", <<>>, m.rc[self.id])>>,
                 m.rc[self.id])

\* Subscribe::register_callsite of a leaf subscriber: its own override, or the
\* trait's default, which asks self.enabled with the empty context.
Leaf_register_callsite(self, m) ==
    IF m.rc[self.id] = "default"
    THEN LET e == Leaf_enabled(self, m, Context_none)
             r == IF e.ret THEN "always" ELSE "never"
         IN Returns(<<Call(self.id, "register_callsite", <<>>, r)>> \o e.log, r)
    ELSE Returns(<<Call(self.id, "register_callsite", <<>>, m.rc[self.id])>>,
                 m.rc[self.id])

\* <Option<S> as Subscribe<C>>::enabled
Option_enabled(self, m, c) ==
    IF self.inner # None THEN Leaf_enabled(self.inner[1], m, c)
    ELSE Returns(<<>>, TRUE)

\* <Option<S> as Subscribe<C>>::register_callsite
Option_register_callsite(self, m) ==
    IF self.inner # None THEN Leaf_register_callsite(self.inner[1], m)
    ELSE Returns(<<>>, "always")

\* A register_callsite that never returns early.
is_never_mutant(outer) == FALSE

\* Interest::is_never on the outer participant's answer.
is_never(outer) == outer.ret = "never"

\* A register_callsite that returns the inner answer, or the outer answer,
\* whatever the outer answer is.
pick_interest_mutant(outer, inner) ==
    Returns(outer.log \o inner.log, inner.ret)

pick_outer_mutant(outer, inner) ==
    Returns(outer.log \o inner.log, outer.ret)

\* The tail of Layered::register_callsite, once the inner participant was asked.
pick_interest(outer, inner) ==
    IF outer.ret = "sometimes"
    THEN Returns(outer.log \o inner.log, outer.ret)
    ELSE Returns(outer.log \o inner.log, inner.ret)

\* <Layered<A, B, C> as Subscribe<C>>::register_callsite
RECURSIVE Subscribe_register_callsite(_, _)
Subscribe_register_callsite(self, m) ==
    IF self.kind = "Subscriber" THEN Leaf_register_callsite(self, m)
    ELSE IF self.kind = "Option" THEN Option_register_callsite(self, m)
    ELSE LET outer == Subscribe_register_callsite(self.subscriber, m)
         IN IF is_never(outer) THEN outer
            ELSE pick_interest(outer, Subscribe_register_callsite(self.inner, m))

\* <Layered<S, C> as Collect>::register_callsite
RECURSIVE Collect_register_callsite(_, _)
Collect_register_callsite(self, m) ==
    IF self.kind = "Collector"
    THEN Returns(<<Call(0, "register_callsite", <<>>, m.crc)>>, m.crc)
    ELSE LET outer == Subscribe_register_callsite(self.subscriber, m)
         IN IF is_never(outer) THEN outer
            ELSE pick_interest(outer, Collect_register_callsite(self.inner, m))

\* <Layered<A, B, C> as Subscribe<C>>::enabled: both branches ask
\* self.subscriber; self.inner is not asked.
RECURSIVE Subscribe_enabled(_, _, _)
Subscribe_enabled(self, m, c) ==
    IF self.kind = "Subscriber" THEN Leaf_enabled(self, m, c)
    ELSE IF self.kind = "Option" THEN Option_enabled(self, m, c)
    ELSE LET outer == Subscribe_enabled(self.subscriber, m, c)
         IN IF outer.ret
            THEN LET again == Subscribe_enabled(self.subscriber, m, c)
                 IN Returns(outer.log \o again.log, again.ret)
            ELSE Returns(outer.log, FALSE)

\* An enabled that asks the collector whatever the subscriber says.
ask_collector_mutant(outer, inner) ==
    Returns(outer.log \o inner.log, inner.ret)

\* The branch of <Layered<S, C> as Collect>::enabled.
ask_collector(outer, inner) ==
    IF outer.ret
    THEN Returns(outer.log \o inner.log, inner.ret)
    ELSE Returns(outer.log, FALSE)

\* <Layered<S, C> as Collect>::enabled
RECURSIVE Collect_enabled(_, _)
Collect_enabled(self, m) ==
    IF self.kind = "Collector"
    THEN Returns(<<Call(0, "enabled", <<>>, m.cen)>>, m.cen)
    ELSE ask_collector(Subscribe_enabled(self.subscriber, m, ctx(self)),
                       Collect_enabled(self.inner, m))

\* Option<LevelFilter>'s order: None below every Some, Some by LevelFilter.
OptionLe(a, b) ==
    \/ a = None
    \/ a # None /\ b # None /\ LevelRank(a[1]) <= LevelRank(b[1])

\* The smaller of the two hints.
cmp_max_mutant(a, b) == IF OptionLe(a, b) THEN a ELSE b

\* std::cmp::max
cmp_max(a, b) == IF OptionLe(a, b) THEN b ELSE a

\* Subscribe::max_level_hint of a leaf subscriber: its own hint.
Leaf_max_level_hint(self, m) ==
    Returns(<<Call(self.id, "max_level_hint", <<>>, m.hint[self.id])>>,
            m.hint[self.id])

\* <Option<S> as Subscribe<C>>::max_level_hint
Option_max_level_hint(self, m) ==
    IF self.inner # None THEN Leaf_max_level_hint(self.inner[1], m)
    ELSE Returns(<<>>, None)

\* Subscribe::max_level_hint: Layered's Subscribe impl has no max_level_hint
\* of its own, so a nested node answers the trait's default.
Subscribe_max_level_hint(self, m) ==
    IF self.kind = "Subscriber" THEN Leaf_max_level_hint(self, m)
    ELSE IF self.kind = "Option" THEN Option_max_level_hint(self, m)
    ELSE Returns(<<>>, None)

\* <Layered<S, C> as Collect>::max_level_hint
RECURSIVE Collect_max_level_hint(_, _)
Collect_max_level_hint(self, m) ==
    IF self.kind = "Collector"
    THEN Returns(<<Call(0, "max_level_hint", <<>>, m.hint[0])>>, m.hint[0])
    ELSE LET outer == Subscribe_max_level_hint(self.subscriber, m)
             inner == Collect_max_level_hint(self.inner, m)
         IN Returns(outer.log \o inner.log, cmp_max(outer.ret, inner.ret))

----------------------------------------------------------------------------
\* The authoritative collector: it mints span ids, counts the references to
\* each span and knows the current span.  col.next is the next id to mint,
\* col.refs[id] the references held to span id, col.current the entered span.

Ids == 1..MaxSpans

Payloads == {"p", "q"}

Live(c) == {id \in Ids : c.refs[id] > 0}

\* The collector before any span; `registry` tells whether it is the Registry
\* of a build with the registry feature.
NewCollector(registry) ==
    [next |-> 1, refs |-> [id \in Ids |-> 0], current |-> None,
     registry |-> registry]

\* Collect::new_span of the collector.
Collector_new_span(c, attrs) ==
    [log |-> <<Call(0, "new_span", <<attrs>>, c.next)>>,
     ret |-> c.next,
     col |-> [c EXCEPT !.next = @ + 1, !.refs[c.next] = 1]]

\* record, record_follows_from, event, enter, exit of the collector.
Collector_forward(c, method, args) ==
    [log |-> <<Call(0, method, args, Unit)>>,
     ret |-> Unit,
     col |-> CASE method = "enter" -> [c EXCEPT !.current = Some(args[1])]
               [] method = "exit" -> [c EXCEPT !.current = None]
               [] OTHER -> c]

\* Collect::clone_span of the collector: one more reference to the same id, or
\* (fresh) a new id for the same span.
Collector_clone_span(c, old, fresh) ==
    LET new == IF fresh THEN c.next ELSE old
    IN [log |-> <<Call(0, "clone_span", <<old>>, new)>>,
        ret |-> new,
        col |-> IF fresh
                THEN [c EXCEPT !.next = @ + 1, !.refs[c.next] = 1]
                ELSE [c EXCEPT !.refs[old] = @ + 1]]

\* Collect::try_close of the collector: true when the last reference goes.
Collector_try_close(c, id) ==
    [log |-> <<Call(0, "try_close", <<id>>, c.refs[id] = 1)>>,
     ret |-> c.refs[id] = 1,
     col |-> [c EXCEPT !.refs[id] = @ - 1,
                       !.current = IF c.refs[id] = 1 /\ @ = Some(id)
                                   THEN None ELSE @]]

\* Collect::current_span of the collector.
Collector_current_span(c) ==
    [log |-> <<Call(0, "current_span", <<>>, c.current)>>,
     ret |-> c.current,
     col |-> c]

----------------------------------------------------------------------------
\* Notifications.

\* The Subscribe notification that a Collect method of Layered gives.
Notification(method) ==
    CASE method = "new_span" -> "new_span"
      [] method = "record" -> "on_record"
      [] method = "record_follows_from" -> "on_follows_from"
      [] method = "event" -> "on_event"
      [] method = "enter" -> "on_enter"
      [] method = "exit" -> "on_exit"
      [] method = "try_close" -> "on_close"
      [] method = "clone_span" -> "on_id_change"

\* A notification that tells self.subscriber before self.inner.
inner_then_subscriber_mutant(inner, subscriber) == subscriber \o inner

\* The two statements of each notification of <Layered as Subscribe>.
inner_then_subscriber(inner, subscriber) == inner \o subscriber

\* A subscriber that is told everything twice.
Leaf_notify_mutant(self, method, args, c) ==
    <<CtxCall(self.id, method, args, c, Unit), CtxCall(self.id, method, args, c, Unit)>>

\* A notification received by a leaf subscriber.
Leaf_notify(self, method, args, c) == <<CtxCall(self.id, method, args, c, Unit)>>

\* An Option that forwards a notification twice.
Option_notify_mutant(self, method, args, c) ==
    IF self.inner # None
    THEN Leaf_notify(self.inner[1], method, args, c)
            \o Leaf_notify(self.inner[1], method, args, c)
    ELSE <<>>

\* <Option<S> as Subscribe<C>>::new_span, on_record, on_follows_from, on_event,
\* on_enter, on_exit, on_close, on_id_change: `if let Some(ref inner) = self`.
Option_notify(self, method, args, c) ==
    IF self.inner # None THEN Leaf_notify(self.inner[1], method, args, c)
    ELSE <<>>

\* <Layered<A, B, C> as Subscribe<C>>::new_span, on_record, on_follows_from,
\* on_event, on_enter, on_exit, on_close, on_id_change: the calls made on the
\* leaf subscribers, in order.
RECURSIVE Subscribe_notify(_, _, _, _)
Subscribe_notify(self, method, args, c) ==
    IF self.kind = "Subscriber" THEN Leaf_notify(self, method, args, c)
    ELSE IF self.kind = "Option" THEN Option_notify(self, method, args, c)
    ELSE inner_then_subscriber(Subscribe_notify(self.inner, method, args, c),
                               Subscribe_notify(self.subscriber, method, args, c))

\* A Collect method that notifies the subscriber before calling the collector.
collector_then_subscriber_mutant(inner, subscriber) == subscriber \o inner

\* The two statements of new_span, record, record_follows_from, event, enter
\* and exit of <Layered as Collect>.
collector_then_subscriber(inner, subscriber) == inner \o subscriber

\* <Layered<S, C> as Collect>::new_span
RECURSIVE Collect_new_span(_, _, _)

\* A new_span that tells its subscriber an id of the node's own making.
Collect_new_span_mutant(self, c, attrs) ==
    IF self.kind = "Collector" THEN Collector_new_span(c, attrs)
    ELSE LET r == Collect_new_span(self.inner, c, attrs)
         IN [r EXCEPT !.log = collector_then_subscriber(r.log,
                Subscribe_notify(self.subscriber, "new_span", <<attrs, r.ret + 1>>,
                                 ctx(self)))]

Collect_new_span(self, c, attrs) ==
    IF self.kind = "Collector" THEN Collector_new_span(c, attrs)
    ELSE LET r == Collect_new_span(self.inner, c, attrs)
         IN [r EXCEPT !.log = collector_then_subscriber(r.log,
                Subscribe_notify(self.subscriber, "new_span", <<attrs, r.ret>>,
                                 ctx(self)))]

\* <Layered<S, C> as Collect>::record, record_follows_from, event, enter, exit
RECURSIVE Collect_forward(_, _, _, _)
Collect_forward(self, c, method, args) ==
    IF self.kind = "Collector" THEN Collector_forward(c, method, args)
    ELSE LET r == Collect_forward(self.inner, c, method, args)
         IN [r EXCEPT !.log = collector_then_subscriber(r.log,
                Subscribe_notify(self.subscriber, Notification(method), args,
                                 ctx(self)))]

\* A clone_span that tells on_id_change whatever id came back.
if_id_changed_mutant(r, old, notified) == [r EXCEPT !.log = r.log \o notified]

\* The branch of <Layered as Collect>::clone_span: r is what self.inner did,
\* `notified` the calls that self.subscriber.on_id_change makes.
if_id_changed(r, old, notified) ==
    IF r.ret # old THEN [r EXCEPT !.log = r.log \o notified] ELSE r

\* <Layered<S, C> as Collect>::clone_span
RECURSIVE Collect_clone_span(_, _, _, _)
Collect_clone_span(self, c, old, fresh) ==
    IF self.kind = "Collector" THEN Collector_clone_span(c, old, fresh)
    ELSE LET r == Collect_clone_span(self.inner, c, old, fresh)
         IN if_id_changed(r, old,
                Subscribe_notify(self.subscriber, "on_id_change", <<old, r.ret>>,
                                 ctx(self)))

\* A try_close that tells on_close whatever the collector said, and one that
\* never tells it.
if_closed_mutant(r, notified) == [r EXCEPT !.log = r.log \o notified]

if_closed_never_mutant(r, notified) == r

\* The branch of <Layered as Collect>::try_close: r is what self.inner did,
\* `notified` the calls that self.subscriber.on_close makes.
if_closed(r, notified) ==
    IF r.ret THEN [r EXCEPT !.log = r.log \o notified] ELSE r

\* The close guard of try_close, when self.inner downcasts to the Registry:
\* registry.start_close(id) before self.inner.try_close, g.is_closing() once it
\* returned true, and the guard's drop when try_close returns.  The downcast
\* itself only compares types and is not logged.
start_close(c, id) ==
    IF c.registry THEN <<Call(0, "start_close", <<id>>, Unit)>> ELSE <<>>

is_closing(c, id) ==
    IF c.registry THEN <<Call(0, "is_closing", <<id>>, Unit)>> ELSE <<>>

drop_guard(c, id) ==
    IF c.registry THEN <<Call(0, "drop_guard", <<id>>, Unit)>> ELSE <<>>

\* A try_close that notifies on_close before it marks the guard.
closing_then_on_close_mutant(closing, on_close) == on_close \o closing

\* The true branch of try_close: the guard is marked, then on_close is called.
closing_then_on_close(closing, on_close) == closing \o on_close

\* <Layered<S, C> as Collect>::try_close
RECURSIVE Collect_try_close(_, _, _)
Collect_try_close(self, c, id) ==
    IF self.kind = "Collector" THEN Collector_try_close(c, id)
    ELSE LET r == Collect_try_close(self.inner, c, id)
             closed == if_closed([r EXCEPT !.log = start_close(c, id) \o r.log],
                           closing_then_on_close(is_closing(c, id),
                               Subscribe_notify(self.subscriber, "on_close", <<id>>,
                                                ctx(self))))
         IN [closed EXCEPT !.log = @ \o drop_guard(c, id)]

\* A drop_span that reaches the collector as drop_span.
Collect_drop_span_mutant(self, c, id) ==
    LET r == Collect_try_close(self, c, id)
    IN [r EXCEPT !.ret = Unit,
                 !.log = [k \in 1..Len(r.log) |->
                            IF r.log[k].who = 0
                            THEN Call(0, "drop_span", <<id>>, Unit)
                            ELSE r.log[k]]]

\* <Layered<S, C> as Collect>::drop_span
Collect_drop_span(self, c, id) ==
    [Collect_try_close(self, c, id) EXCEPT !.ret = Unit]

\* <Layered<S, C> as Collect>::current_span
RECURSIVE Collect_current_span(_, _)

\* A current_span that each node answers itself, with no current span.
Collect_current_span_mutant(self, c) ==
    IF self.kind = "Collector" THEN Collector_current_span(c)
    ELSE [Collect_current_span(self.inner, c) EXCEPT !.ret = None]

Collect_current_span(self, c) ==
    IF self.kind = "Collector" THEN Collector_current_span(c)
    ELSE Collect_current_span(self.inner, c)

----------------------------------------------------------------------------
\* The methods of Context that a subscriber can call on the context it was
\* handed; `c` is the context, `m` the filtering answers and `cs` the state of
\* the collector.

\* Context::current_span
Context_current_span(c, cs) ==
    IF c.subscriber = None THEN [log |-> <<>>, ret |-> None, col |-> cs]
    ELSE Collect_current_span(c.subscriber[1], cs)

\* A Context::enabled that says false on the empty context.
Context_enabled_mutant(c, m) ==
    IF c.subscriber = None THEN Returns(<<>>, FALSE)
    ELSE Collect_enabled(c.subscriber[1], m)

\* Context::enabled
Context_enabled(c, m) ==
    IF c.subscriber = None THEN Returns(<<>>, TRUE)
    ELSE Collect_enabled(c.subscriber[1], m)

\* A Context::event that records nothing.
Context_event_mutant(c, cs, event) == [log |-> <<>>, ret |-> Unit, col |-> cs]

\* Context::event
Context_event(c, cs, event) ==
    IF c.subscriber = None THEN [log |-> <<>>, ret |-> Unit, col |-> cs]
    ELSE Collect_forward(c.subscriber[1], cs, "event", <<event>>)

----------------------------------------------------------------------------
\* Downcasting.
\*
\* A TypeId is a tuple: <<name>> for a leaf type, <<"Option", S>> for Option<S>
\* and <<"Layered", S, I>> for Layered<S, I, C>.  `ty` gives the type name of
\* every leaf position; the collector's type C is the same throughout a chain
\* and is left out of the tuple.  A pointer to a component is modelled by the
\* component itself: no two components of a chain are equal.

SubscriberTypes == {"StringSubscriber", "StringSubscriber2", "StringSubscriber3"}

CollectorTypes == {"StringCollector"}

\* TypeId::of::<Self>()
RECURSIVE TypeOf(_, _)
TypeOf(self, ty) ==
    CASE self.kind = "Subscriber" -> <<ty[self.id]>>
      [] self.kind = "Collector" -> <<ty[0]>>
      [] self.kind = "Option" -> <<"Option", <<ty[self.id]>>>>
      [] self.kind = "Layered" ->
            <<"Layered", TypeOf(self.subscriber, ty), TypeOf(self.inner, ty)>>

\* A downcast_raw that answers for every type.
is_type_mutant(self, id, ty) == TRUE

\* id == TypeId::of::<Self>()
is_type(self, id, ty) == id = TypeOf(self, ty)

\* An or_else that never looks at self.inner, and one that prefers it.
or_else_mutant(a, b) == a

or_else_inner_mutant(a, b) ==
    IF b.ret # None THEN Returns(a.log \o b.log, b.ret) ELSE Returns(a.log \o b.log, a.ret)

\* Option::or_else: b is evaluated only when a is None.
or_else(a, b) ==
    IF a.ret # None THEN a ELSE Returns(a.log \o b.log, b.ret)

\* Subscribe::downcast_raw, the trait's default, on a leaf subscriber.
Leaf_downcast_raw(self, id, ty) ==
    LET ret == IF is_type(self, id, ty) THEN Some(self) ELSE None
    IN Returns(<<Call(self.id, "downcast_raw", <<id>>, ret)>>, ret)

\* Collect::downcast_raw of the collector: the same comparison with its own type.
Collector_downcast_raw(self, id, ty) ==
    LET ret == IF id = TypeOf(self, ty) THEN Some(self) ELSE None
    IN Returns(<<Call(0, "downcast_raw", <<id>>, ret)>>, ret)

\* <Option<S> as Subscribe<C>>::downcast_raw
Option_downcast_raw(self, id, ty) ==
    IF is_type(self, id, ty) THEN Returns(<<>>, Some(self))
    ELSE IF self.inner # None THEN Leaf_downcast_raw(self.inner[1], id, ty)
    ELSE Returns(<<>>, None)

\* <Layered<S, C> as Collect>::downcast_raw and
\* <Layered<A, B, C> as Subscribe<C>>::downcast_raw, which have the same body.
RECURSIVE downcast_raw(_, _, _)
downcast_raw(self, id, ty) ==
    CASE self.kind = "Layered" ->
            IF is_type(self, id, ty) THEN Returns(<<>>, Some(self))
            ELSE or_else(downcast_raw(self.subscriber, id, ty),
                         downcast_raw(self.inner, id, ty))
      [] self.kind = "Option" -> Option_downcast_raw(self, id, ty)
      [] self.kind = "Collector" -> Collector_downcast_raw(self, id, ty)
      [] OTHER -> Leaf_downcast_raw(self, id, ty)

----------------------------------------------------------------------------
\* The state machine.

\* The threads that share one chain, and a thread that is in no call.
Threads == {"t1", "t2"}

Idle == [name |-> "idle", args |-> <<>>, done |-> <<>>, pending |-> <<>>, ret |-> Unit]

NoThreads == [t \in Threads |-> Idle]

\* The answers before any filtering call was made.
NoAnswers(node) ==
    [rc |-> [i \in Observers(node) |-> "default"],
     en |-> [i \in Observers(node) |-> TRUE],
     crc |-> "always",
     cen |-> TRUE,
     hint |-> [p \in Participants(node) |-> None]]

Init ==
    /\ chain \in Chains
    /\ col = NewCollector(FALSE)
    /\ env = NoAnswers(chain)
    /\ log = <<>>
    /\ result = Unit
    /\ op = [name |-> "init", args |-> <<>>]
    /\ threads = NoThreads

\* One call on the outermost node: r is what the call did.
Did(name, args, r) ==
    /\ op' = [name |-> name, args |-> args]
    /\ log' = r.log
    /\ result' = r.ret
    /\ UNCHANGED threads

\* The filtering calls: the participants answer as `env` says.
RegisterCallsite ==
    /\ Did("register_callsite", <<>>, Collect_register_callsite(chain, env))
    /\ UNCHANGED <<chain, col, env>>

Enabled ==
    /\ Did("enabled", <<>>, Collect_enabled(chain, env))
    /\ UNCHANGED <<chain, col, env>>

MaxLevelHint ==
    /\ Did("max_level_hint", <<>>, Collect_max_level_hint(chain, env))
    /\ UNCHANGED <<chain, col, env>>

\* A call that reaches the collector: r also carries the collector's new state.
Collected(name, args, r) ==
    /\ Did(name, args, r)
    /\ col' = r.col
    /\ UNCHANGED <<chain, env>>

NewSpan ==
    \E attrs \in Payloads :
        /\ col.next <= MaxSpans
        /\ Collected("new_span", <<attrs>>, Collect_new_span(chain, col, attrs))

Record ==
    \E id \in Live(col), values \in Payloads :
        Collected("record", <<id, values>>,
                  Collect_forward(chain, col, "record", <<id, values>>))

RecordFollowsFrom ==
    \E id \in Live(col), follows \in Live(col) :
        Collected("record_follows_from", <<id, follows>>,
                  Collect_forward(chain, col, "record_follows_from", <<id, follows>>))

Event ==
    \E event \in Payloads :
        Collected("event", <<event>>,
                  Collect_forward(chain, col, "event", <<event>>))

Enter ==
    \E id \in Live(col) :
        Collected("enter", <<id>>, Collect_forward(chain, col, "enter", <<id>>))

Exit ==
    \E id \in Live(col) :
        /\ col.current = Some(id)
        /\ Collected("exit", <<id>>, Collect_forward(chain, col, "exit", <<id>>))

CloneSpan ==
    \E old \in Live(col), fresh \in BOOLEAN :
        /\ fresh => col.next <= MaxSpans
        /\ ~fresh => col.refs[old] < MaxRefs
        /\ Collected("clone_span", <<old>>,
                     Collect_clone_span(chain, col, old, fresh))

TryClose ==
    \E id \in Live(col) :
        Collected("try_close", <<id>>, Collect_try_close(chain, col, id))

DropSpan ==
    \E id \in Live(col) :
        Collected("drop_span", <<id>>, Collect_drop_span(chain, col, id))

CurrentSpan ==
    Collected("current_span", <<>>, Collect_current_span(chain, col))

\* The span and event calls of Collect.
Next ==
    \/ NewSpan
    \/ Record
    \/ RecordFollowsFrom
    \/ Event
    \/ Enter
    \/ Exit
    \/ CloneSpan
    \/ TryClose
    \/ DropSpan
    \/ CurrentSpan

Spec == Init /\ [][Next]_vars

\* The filtering calls of Collect.
NextFilter ==
    \/ RegisterCallsite
    \/ Enabled
    \/ MaxLevelHint

\* The answers the participants of a chain can give about one callsite.  The
\* enabled answer is varied on the subscribers that take the default
\* register_callsite, the only ones whose register_callsite reads it.
MetadataAnswers(node) ==
    {a \in {[NoAnswers(node) EXCEPT !.rc = rc, !.en = en, !.crc = crc, !.cen = cen] :
                rc \in [Observers(node) -> Interest \cup {"default"}],
                en \in [Observers(node) -> BOOLEAN],
                crc \in Interest, cen \in BOOLEAN} :
        \A i \in Observers(node) : a.rc[i] # "default" => a.en[i]}

\* The hints the participants of a chain can have.
HintAnswers(node) ==
    {[NoAnswers(node) EXCEPT !.hint = hint] : hint \in [Participants(node) -> Hints]}

InitFilter ==
    /\ chain \in Chains
    /\ col = NewCollector(FALSE)
    /\ env \in MetadataAnswers(chain) \cup HintAnswers(chain)
    /\ log = <<>>
    /\ result = Unit
    /\ op = [name |-> "init", args |-> <<>>]
    /\ threads = NoThreads

SpecFilter == InitFilter /\ [][NextFilter]_vars

\* Chains with optional subscribers, under every call of Collect.  The span
\* and event calls never read `env` and the filtering calls never read `col`,
\* so the span and event calls are explored under one `env` only.
InitOption ==
    /\ chain \in OptionChains
    /\ col = NewCollector(FALSE)
    /\ env \in MetadataAnswers(chain) \cup HintAnswers(chain)
    /\ log = <<>>
    /\ result = Unit
    /\ op = [name |-> "init", args |-> <<>>]
    /\ threads = NoThreads

NextSpan == env = NoAnswers(chain) /\ Next

\* Every call of Collect.
NextCollect ==
    \/ NextSpan
    \/ NextFilter

SpecOption == InitOption /\ [][NextCollect]_vars

\* Chains of subscribers that take every default of the trait, around a
\* collector that answers the filtering calls in every way.
DefaultAnswers(node) ==
    {[NoAnswers(node) EXCEPT !.crc = crc, !.cen = cen, !.hint[0] = hint] :
        crc \in Interest, cen \in BOOLEAN, hint \in Hints}

InitDefault ==
    /\ chain \in Chains
    /\ col = NewCollector(FALSE)
    /\ env \in DefaultAnswers(chain)
    /\ log = <<>>
    /\ result = Unit
    /\ op = [name |-> "init", args |-> <<>>]
    /\ threads = NoThreads

SpecDefault == InitDefault /\ [][NextCollect]_vars

\* Downcasting a chain whose leaves have the types env.ty.

\* The positions of a tree: its leaf subscribers, present or not, and the
\* collector.
RECURSIVE Positions(_)
Positions(node) ==
    CASE node.kind = "Layered" -> Positions(node.subscriber) \cup Positions(node.inner)
      [] node.kind = "Collector" -> {0}
      [] OTHER -> {node.id}

\* The ways of giving a type to every leaf of a chain.
TypeAnswers(node) ==
    {[ty |-> ty] : ty \in {t \in [Positions(node) -> SubscriberTypes \cup CollectorTypes] :
                              \A p \in Positions(node) :
                                  t[p] \in CollectorTypes <=> p = 0}}

\* Every component of a tree, composition nodes and leaves.
RECURSIVE Components(_)
Components(node) ==
    CASE node.kind = "Layered" ->
            {node} \cup Components(node.subscriber) \cup Components(node.inner)
      [] node.kind = "Option" ->
            {node} \cup (IF node.inner = None THEN {} ELSE {node.inner[1]})
      [] OTHER -> {node}

\* Types that no component of a chain has.
OtherTypes == {"NopSubscriber", "NopCollector"}

\* The types a caller asks for: every leaf type, the type of every component
\* of the chain, and types that are nowhere in it.
RequestTypes(node, ty) ==
    {<<n>> : n \in SubscriberTypes \cup CollectorTypes \cup OtherTypes}
        \cup {TypeOf(n, ty) : n \in Components(node)}

InitDowncast ==
    /\ chain \in Chains \cup OptionChains
    /\ col = NewCollector(FALSE)
    /\ env \in TypeAnswers(chain)
    /\ log = <<>>
    /\ result = Unit
    /\ op = [name |-> "init", args |-> <<>>]
    /\ threads = NoThreads

\* Collect::downcast_ref::<T>() on the outermost node.
Downcast ==
    \E id \in RequestTypes(chain, env.ty) :
        /\ Did("downcast_raw", <<id>>, downcast_raw(chain, id, env.ty))
        /\ UNCHANGED <<chain, col, env>>

NextDowncast == Downcast

SpecDowncast == InitDowncast /\ [][NextDowncast]_vars

\* The span and event calls on a chain whose participants, asked, would all
\* refuse the callsite, or all accept it.
NeverAnswers(node) ==
    [rc |-> [i \in Observers(node) |-> "never"],
     en |-> [i \in Observers(node) |-> FALSE],
     crc |-> "never",
     cen |-> FALSE,
     hint |-> [p \in Participants(node) |-> Some("ERROR")]]

InitUnasked ==
    /\ chain \in Chains
    /\ col = NewCollector(FALSE)
    /\ env \in {NoAnswers(chain), NeverAnswers(chain)}
    /\ log = <<>>
    /\ result = Unit
    /\ op = [name |-> "init", args |-> <<>>]
    /\ threads = NoThreads

NextUnasked ==
    \/ NewSpan
    \/ Record
    \/ RecordFollowsFrom
    \/ Event
    \/ Enter
    \/ Exit

SpecUnasked == InitUnasked /\ [][NextUnasked]_vars

\* Closing spans on a chain whose collector is the Registry.
InitRegistry ==
    /\ chain \in Chains
    /\ col = NewCollector(TRUE)
    /\ env = NoAnswers(chain)
    /\ log = <<>>
    /\ result = Unit
    /\ op = [name |-> "init", args |-> <<>>]
    /\ threads = NoThreads

NextRegistry ==
    \/ NewSpan
    \/ CloneSpan
    \/ TryClose
    \/ DropSpan

SpecRegistry == InitRegistry /\ [][NextRegistry]_vars

\* A subscriber calling the methods of a Context.

\* The nodes of a sealed chain that implement Collect: the ones that make
\* contexts.
CollectNodes(node) == {n \in Nodes(node) : IsCollect(n)}

\* The contexts a subscriber of the chain can hold.
Contexts(node) == {Context_none} \cup {ctx(n) : n \in CollectNodes(node)}

\* The collector before any span, and with span 1 made and entered.
CollectorStates ==
    {NewCollector(FALSE),
     [NewCollector(FALSE) EXCEPT !.next = 2, !.refs[1] = 1, !.current = Some(1)]}

\* The enabled answers the participants of a chain can give.
EnabledAnswers(node) ==
    {[NoAnswers(node) EXCEPT !.en = en, !.cen = cen] :
        en \in [Observers(node) -> BOOLEAN], cen \in BOOLEAN}

InitContext ==
    /\ chain \in Chains
    /\ col \in CollectorStates
    /\ env \in EnabledAnswers(chain)
    /\ log = <<>>
    /\ result = Unit
    /\ op = [name |-> "init", args |-> <<>>]
    /\ threads = NoThreads

ContextCurrentSpan ==
    \E c \in Contexts(chain) :
        Collected("Context::current_span", <<c>>, Context_current_span(c, col))

ContextEnabled ==
    \E c \in Contexts(chain) :
        /\ Did("Context::enabled", <<c>>, Context_enabled(c, env))
        /\ UNCHANGED <<chain, col, env>>

ContextEvent ==
    \E c \in Contexts(chain), event \in Payloads :
        Collected("Context::event", <<c, event>>, Context_event(c, col, event))

NextContext ==
    \/ ContextCurrentSpan
    \/ ContextEnabled
    \/ ContextEvent

SpecContext == InitContext /\ [][NextContext]_vars

\* Several threads calling one shared chain.  A call is a sequence of calls
\* on the leaves; the threads interleave between any two of them.  The chain
\* reaches the collector before any subscriber, and only the collector's call
\* reads the collector's state, so what a thread still has to do is known once
\* the collector has answered: threads[t].done are the leaf calls thread t has
\* made in its current call, threads[t].pending those it has yet to make.
Started(t, name, args, r) ==
    /\ threads' = [threads EXCEPT ![t] =
                      [name |-> name, args |-> args, done |-> <<Head(r.log)>>,
                       pending |-> Tail(r.log), ret |-> r.ret]]
    /\ col' = r.col
    /\ UNCHANGED <<chain, env, log, result, op>>

\* Thread t, between two calls, calls the chain: the call descends to the
\* collector.
ThreadCall(t) ==
    /\ threads[t].pending = <<>>
    /\ \/ \E event \in Payloads :
             Started(t, "event", <<event>>,
                     Collect_forward(chain, col, "event", <<event>>))
       \/ \E attrs \in Payloads :
             /\ col.next <= MaxSpans
             /\ Started(t, "new_span", <<attrs>>, Collect_new_span(chain, col, attrs))
       \/ \E id \in Live(col) :
             Started(t, "enter", <<id>>, Collect_forward(chain, col, "enter", <<id>>))
       \/ \E id \in Live(col) :
             Started(t, "try_close", <<id>>, Collect_try_close(chain, col, id))

\* Thread t makes the next leaf call of the call it is in.
ThreadNotify(t) ==
    /\ threads[t].pending # <<>>
    /\ threads' = [threads EXCEPT ![t].done = Append(@, Head(threads[t].pending)),
                                  ![t].pending = Tail(@)]
    /\ UNCHANGED <<chain, col, env, log, result, op>>

NextThreads == \E t \in Threads : ThreadCall(t) \/ ThreadNotify(t)

SpecThreads == Init /\ [][NextThreads]_vars

----------------------------------------------------------------------------
\* Properties of the span and event calls (Spec).

Notifications ==
    {"new_span", "on_record", "on_follows_from", "on_event", "on_enter",
     "on_exit", "on_close", "on_id_change"}

\* The positions of `l` at which participant `who` received `method`.
CallsOf(l, who, method) ==
    {k \in 1..Len(l) : l[k].who = who /\ l[k].method = method}

\* C1: in every call passed through a sealed chain, whatever way it was built
\* with and_then and with, a subscriber added earlier receives its notification
\* (new_span, on_record, on_follows_from, on_event, on_enter, on_exit, on_close,
\* on_id_change) strictly before every subscriber added after it.
C1_AddedFirstNotifiedFirst ==
    \A p, q \in 1..Len(log) :
        /\ log[p].who # 0 /\ log[q].who # 0
        /\ log[p].method \in Notifications /\ log[q].method = log[p].method
        /\ log[p].who < log[q].who
        => p < q

\* A.and_then(B).with_collector(C) closed a span: A, then B, got on_close.
C1_Witness ==
    /\ chain = with_collector(and_then(Subscriber(1), Subscriber(2)), Collector)
    /\ op.name = "try_close" /\ result = TRUE
    /\ \E p, q \in 1..Len(log) :
          /\ p < q
          /\ log[p].who = 1 /\ log[p].method = "on_close"
          /\ log[q].who = 2 /\ log[q].method = "on_close"

CollectorCall(method) == log[CHOOSE k \in CallsOf(log, 0, method) : TRUE]

\* C11: with a reference-counting collector, try_close on a span holding more
\* than one reference returns false and no subscriber gets on_close; try_close
\* on its last reference returns true and every subscriber gets on_close once.
\* So a span created once and cloned twice reports false, false, true, and
\* on_close fires once, in the third call.
C11_LastCloseNotifies ==
    [][op'.name = "try_close" =>
        LET last == col.refs[op'.args[1]] = 1
        IN /\ result' = last
           /\ \A i \in Observers(chain) :
                 Cardinality(CallsOf(log', i, "on_close")) = IF last THEN 1 ELSE 0]_vars

\* The first try_close of a span that held three references: two are left.
C11_Witness ==
    /\ op.name = "try_close"
    /\ col.refs[op.args[1]] = 2
    /\ result = FALSE
    /\ \A k \in 1..Len(log) : log[k].method # "on_close"

\* C12: try_close on a sealed chain returns what the collector's try_close
\* returned for that call; on false no subscriber gets on_close, on true every
\* subscriber gets on_close with that id, after the collector's call.
C12_CloseFollowsCollector ==
    op.name = "try_close" =>
        /\ Cardinality(CallsOf(log, 0, "try_close")) = 1
        /\ result = CollectorCall("try_close").ret
        /\ \A i \in Observers(chain) :
              IF result
              THEN \E k \in CallsOf(log, i, "on_close") :
                      /\ log[k].args = op.args
                      /\ \A j \in CallsOf(log, 0, "try_close") : j < k
              ELSE CallsOf(log, i, "on_close") = {}

\* The last reference of a span went through a chain of three subscribers.
C12_Witness ==
    /\ op.name = "try_close"
    /\ result = TRUE
    /\ Observers(chain) = {1, 2, 3}
    /\ \A i \in 1..3 : CallsOf(log, i, "on_close") # {}

\* C13: clone_span(old) on a sealed chain returns the id the collector's
\* clone_span returned; when that is old no subscriber gets on_id_change, when
\* it differs every subscriber gets on_id_change once, with (old, new).
C13_IdChangeOnlyOnChange ==
    op.name = "clone_span" =>
        /\ result = CollectorCall("clone_span").ret
        /\ \A i \in Observers(chain) :
              /\ Cardinality(CallsOf(log, i, "on_id_change"))
                    = IF result = op.args[1] THEN 0 ELSE 1
              /\ \A k \in CallsOf(log, i, "on_id_change") :
                    log[k].args = <<op.args[1], result>>

\* The collector gave a clone a new id and both subscribers were told.
C13_Witness ==
    /\ op.name = "clone_span"
    /\ result # op.args[1]
    /\ Observers(chain) = {1, 2}
    /\ \A i \in 1..2 : \E k \in CallsOf(log, i, "on_id_change") :
          log[k].args = <<op.args[1], result>>

\* C14: span ids come from the collector alone.  new_span on a sealed chain
\* calls the collector's new_span once, returns the id it returned and passes
\* that id to every subscriber's new_span; clone_span and try_close return what
\* the collector returned, so no node makes or retires an id itself.
C14_CollectorMintsIds ==
    /\ op.name = "new_span" =>
          /\ Cardinality(CallsOf(log, 0, "new_span")) = 1
          /\ result = CollectorCall("new_span").ret
          /\ \A i \in Observers(chain) :
                /\ Cardinality(CallsOf(log, i, "new_span")) = 1
                /\ \A k \in CallsOf(log, i, "new_span") : log[k].args[2] = result
    /\ op.name \in {"clone_span", "try_close"} =>
          /\ Cardinality(CallsOf(log, 0, op.name)) = 1
          /\ result = CollectorCall(op.name).ret

\* The second span of a run: the collector minted 2 and everyone was told 2.
C14_Witness ==
    /\ op.name = "new_span"
    /\ result = 2
    /\ Observers(chain) = {1, 2, 3}
    /\ \A i \in 1..3 : \E k \in CallsOf(log, i, "new_span") : log[k].args[2] = 2

\* C22: current_span on a sealed chain returns what the collector's
\* current_span returned, and the collector's is the only call made: no
\* subscriber is notified.
C22_CurrentSpanPassesThrough ==
    op.name = "current_span" =>
        /\ Len(log) = 1
        /\ log[1].who = 0 /\ log[1].method = "current_span"
        /\ result = log[1].ret
        /\ result = col.current

\* A span was entered and current_span, through three subscribers, names it.
C22_Witness ==
    /\ op.name = "current_span"
    /\ Observers(chain) = {1, 2, 3}
    /\ result # None
    /\ Len(log) = 1

\* C30: drop_span(id) on a sealed chain does what try_close(id) does and
\* discards the result: the collector receives try_close, not drop_span, once,
\* and the subscribers get on_close exactly when it returned true.
C30_DropSpanIsTryClose ==
    [][op'.name = "drop_span" =>
        LET r == Collect_try_close(chain, col, op'.args[1])
            closed == col.refs[op'.args[1]] = 1
        IN /\ log' = r.log
           /\ col' = r.col
           /\ result' = Unit
           /\ Cardinality(CallsOf(log', 0, "try_close")) = 1
           /\ CallsOf(log', 0, "drop_span") = {}
           /\ \A k \in CallsOf(log', 0, "try_close") : log'[k].ret = closed
           /\ \A i \in Observers(chain) :
                 Cardinality(CallsOf(log', i, "on_close"))
                    = IF closed THEN 1 ELSE 0]_vars

\* drop_span let the last reference go: the collector's try_close said true
\* and both subscribers got on_close.
C30_Witness ==
    /\ op.name = "drop_span"
    /\ result = Unit
    /\ Observers(chain) = {1, 2}
    /\ \E k \in CallsOf(log, 0, "try_close") : log[k].ret = TRUE
    /\ \A i \in 1..2 : CallsOf(log, i, "on_close") # {}

----------------------------------------------------------------------------
\* Properties of try_close on a Registry (SpecRegistry).

\* C28: in try_close on a chain whose collector is a span registry, the
\* closing signal is given only after the collector's try_close returned true,
\* and every on_close comes after a closing signal; when try_close returns
\* false there is neither a closing signal nor an on_close.
C28_ClosingSignalBeforeOnClose ==
    op.name = "try_close" =>
        IF result
        THEN /\ \A k \in 1..Len(log) :
                   log[k].method = "is_closing" =>
                      \E j \in CallsOf(log, 0, "try_close") : j < k /\ log[j].ret
             /\ \A k \in 1..Len(log) :
                   log[k].method = "on_close" =>
                      \E j \in CallsOf(log, 0, "is_closing") : j < k
        ELSE \A k \in 1..Len(log) : log[k].method \notin {"is_closing", "on_close"}

\* The last reference of a span was closed through three subscribers on a
\* registry: the guard was marked and the subscribers were told.
C28_Witness ==
    /\ op.name = "try_close"
    /\ col.registry
    /\ result = TRUE
    /\ Observers(chain) = {1, 2, 3}
    /\ CallsOf(log, 0, "is_closing") # {}
    /\ \A i \in 1..3 : CallsOf(log, i, "on_close") # {}

----------------------------------------------------------------------------
\* Properties of the span and event calls whatever the filters say
\* (SpecUnasked).

\* C29: every new_span, record, record_follows_from, event, enter and exit on
\* a sealed chain of n subscribers calls the collector's method once and each
\* subscriber's notification once, none skipped and none doubled, whatever
\* register_callsite and enabled of the participants would answer.
C29_EveryoneToldOnce ==
    op.name \in {"new_span", "record", "record_follows_from", "event", "enter", "exit"} =>
        /\ Cardinality(CallsOf(log, 0, op.name)) = 1
        /\ \A i \in Observers(chain) :
              Cardinality(CallsOf(log, i, Notification(op.name))) = 1
        /\ Len(log) = Cardinality(Observers(chain)) + 1

\* Every participant would refuse the callsite; the event still reached the
\* collector and the three subscribers.
C29_Witness ==
    /\ op.name = "event"
    /\ env = NeverAnswers(chain)
    /\ Observers(chain) = {1, 2, 3}
    /\ Len(log) = 4

----------------------------------------------------------------------------
\* Properties of concurrent calls (SpecThreads).

\* C21: when several threads call the shared chain at once, each call notifies
\* the subscribers in the order they were added, after the collector, whatever
\* the other threads do in between; and no step changes the chain.
C21_OrderPerCallUnderInterleaving ==
    /\ [](\A t \in Threads :
            LET d == threads[t].done
            IN /\ d # <<>> => d[1].who = 0
               /\ \A p, q \in 2..Len(d) :
                     p < q => /\ d[p].who < d[q].who
                              /\ d[p].method = d[q].method
               /\ threads[t].pending = <<>> /\ Len(d) > 1
                     => {d[k].who : k \in 2..Len(d)} = Observers(chain))
    /\ [][chain' = chain]_vars

\* Both threads are in the middle of a call on a chain of three subscribers:
\* each has notified the first subscriber and not yet the last.
C21_Witness ==
    /\ Observers(chain) = {1, 2, 3}
    /\ \A t \in Threads :
          /\ Len(threads[t].done) = 2
          /\ Len(threads[t].pending) = 2

----------------------------------------------------------------------------
\* Properties of Context (SpecContext, SpecDefault).

\* C24: Context::event on a context that views a collector passes the event to
\* that collector's event and calls nobody's enabled, so the event is recorded
\* even where the collector's enabled would say false.
C24_ContextEventSkipsEnabled ==
    (op.name = "Context::event" /\ op.args[1] # Context_none) =>
        /\ \E k \in 1..Len(log) :
              /\ log[k].who = 0 /\ log[k].method = "event"
              /\ log[k].args = <<op.args[2]>>
              /\ \A j \in 1..Len(log) :
                    log[j].who = 0 /\ log[j].method = "event" => j = k
        /\ \A k \in 1..Len(log) : log[k].method # "enabled"

\* The collector would have said false, and received the event.
C24_Witness ==
    /\ op.name = "Context::event"
    /\ op.args[1] # Context_none
    /\ ~env.cen
    /\ log # <<>>
    /\ log[1].who = 0 /\ log[1].method = "event"

\* C27: on the empty context enabled is true, current_span is the
\* no-current-span value and event does nothing, and none of them calls the
\* collector or a subscriber; on a context that views a collector, enabled and
\* current_span return what that collector's enabled and current_span return.
C27_ContextReads ==
    /\ (op.name = "Context::enabled" /\ op.args[1] = Context_none)
            => result = TRUE /\ log = <<>>
    /\ (op.name = "Context::current_span" /\ op.args[1] = Context_none)
            => result = None /\ log = <<>>
    /\ (op.name = "Context::event" /\ op.args[1] = Context_none)
            => log = <<>>
    /\ (op.name = "Context::enabled" /\ op.args[1] # Context_none)
            => /\ result = Collect_enabled(op.args[1].subscriber[1], env).ret
               /\ log = Collect_enabled(op.args[1].subscriber[1], env).log
    /\ (op.name = "Context::current_span" /\ op.args[1] # Context_none)
            => /\ result = col.current
               /\ Len(log) = 1 /\ log[1].who = 0 /\ log[1].ret = result

\* The collector says false and has a current span; enabled on the empty
\* context still said true.
C27_Witness ==
    /\ op.name = "Context::enabled"
    /\ op.args[1] = Context_none
    /\ ~env.cen
    /\ col.current # None
    /\ result = TRUE

\* C31: an event that a subscriber sends through its context goes only to
\* what lies beneath the node that made the context: the collector first, then
\* the subscribers of the node's inner value in the order they were added, and
\* no subscriber under the node's `subscriber` field, the sender among them.
\* So in A.and_then(B).with_collector(C) it reaches C alone, and in
\* C.with(A).with(B) an event sent by B reaches C, then A, and not B.
C31_ContextEventGoesBeneath ==
    op.name = "Context::event" =>
        \A n \in CollectNodes(chain) :
            ctx(n) = op.args[1] =>
                /\ log # <<>>
                /\ log[1].who = 0 /\ log[1].method = "event"
                /\ \A k \in 2..Len(log) :
                      /\ log[k].method = "on_event"
                      /\ log[k].args = <<op.args[2]>>
                      /\ k > 2 => log[k - 1].who < log[k].who
                /\ {log[k].who : k \in 2..Len(log)} = Observers(n.inner)
                /\ \A i \in Observers(n.subscriber) :
                      \A k \in 1..Len(log) : log[k].who # i

\* In a chain built with `with` only, subscriber 3 sent an event through its
\* context: the collector, subscriber 1 and subscriber 2 received it.
C31_Witness ==
    /\ op.name = "Context::event"
    /\ Observers(chain) = {1, 2, 3}
    /\ op.args[1] = ctx(chain)
    /\ Observers(chain.subscriber) = {3}
    /\ Len(log) = 3
    /\ log[2].who = 1 /\ log[3].who = 2

\* The node of a sealed chain that implements Collect and has subscriber i
\* under its `subscriber` field.
RECURSIVE CollectNodeOf(_, _)
CollectNodeOf(node, i) ==
    IF i \in Observers(node.subscriber) THEN node ELSE CollectNodeOf(node.inner, i)

\* C25: a subscriber is handed the empty context only by the default
\* register_callsite, which calls the subscriber's own enabled with it; every
\* other enabled call and every notification carries a context that views the
\* inner value of the node that made it.
C25_EmptyContextOnlyAtRegistration ==
    \A k \in 1..Len(log) :
        "ctx" \in DOMAIN log[k] =>
            IF log[k].ctx = Context_none
            THEN /\ op.name = "register_callsite"
                 /\ log[k].method = "enabled"
                 /\ k > 1
                 /\ log[k - 1].method = "register_callsite"
                 /\ log[k - 1].who = log[k].who
            ELSE log[k].ctx = [subscriber |-> Some(CollectNodeOf(chain, log[k].who).inner)]

\* enabled went through three subscribers: each was handed a context, and one
\* of the contexts views a chain, not the bare collector.
C25_Witness ==
    /\ op.name = "enabled"
    /\ Observers(chain) = {1, 2, 3}
    /\ \A i \in 1..3 : \E k \in 1..Len(log) :
          log[k].who = i /\ log[k].ctx # Context_none
    /\ \E k \in 1..Len(log) :
          log[k].who # 0 /\ log[k].ctx.subscriber[1].kind = "Layered"

----------------------------------------------------------------------------
\* Properties of downcasting (SpecDowncast).

\* The leaf at position p: the collector is at position 0.
LeafAt(p) == IF p = 0 THEN Collector ELSE Subscriber(p)

\* The leaves of the chain are plain subscribers whose types, and the
\* collector's, all differ.
DistinctTypes ==
    /\ Absent(chain) = {}
    /\ \A p, q \in Participants(chain) : env.ty[p] = env.ty[q] => p = q

\* C15: in a sealed chain whose subscribers and collector all have different
\* types, as in the chain of three subscribers around one collector, asking the
\* outermost node for the type of any of them finds it, and what is found is
\* the very component that was put into the chain.
C15_EveryLeafIsFound ==
    (op.name = "downcast_raw" /\ DistinctTypes) =>
        \A p \in Participants(chain) :
            op.args[1] = <<env.ty[p]>> => result = Some(LeafAt(p))

\* Three subscribers of three types: the collector, the deepest leaf, was
\* asked for and found.
C15_Witness ==
    /\ op.name = "downcast_raw"
    /\ DistinctTypes
    /\ Observers(chain) = {1, 2, 3}
    /\ op.args[1] = <<env.ty[0]>>
    /\ result = Some(Collector)

\* C16: what a downcast returns is a component of the chain whose own type
\* is the requested one; when no component has that type nothing is found.
C16_FoundHasRequestedType ==
    op.name = "downcast_raw" =>
        IF \E n \in Components(chain) : TypeOf(n, env.ty) = op.args[1]
        THEN /\ result # None
             /\ result[1] \in Components(chain)
             /\ TypeOf(result[1], env.ty) = op.args[1]
        ELSE result = None

\* A type that is nowhere in a chain of three subscribers was asked for: every
\* leaf was asked and nothing was found.
C16_Witness ==
    /\ op.name = "downcast_raw"
    /\ op.args[1] = <<"NopSubscriber">>
    /\ Observers(chain) = {1, 2, 3}
    /\ Len(log) = 4
    /\ result = None

\* The components of a tree in the order: the node, then everything under its
\* subscriber, then everything under its inner value.
RECURSIVE SearchOrder(_)
SearchOrder(node) ==
    CASE node.kind = "Layered" ->
            <<node>> \o SearchOrder(node.subscriber) \o SearchOrder(node.inner)
      [] node.kind = "Option" ->
            IF node.inner = None THEN <<node>> ELSE <<node, node.inner[1]>>
      [] OTHER -> <<node>>

\* The position in `order` of the first component of type id, 0 when none is.
FirstMatch(order, id, ty) ==
    LET matches == {k \in 1..Len(order) : TypeOf(order[k], ty) = id}
    IN IF matches = {} THEN 0
       ELSE CHOOSE k \in matches : \A j \in matches : k <= j

\* C17: a downcast searches depth-first: the node itself, then the child that
\* was added later (subscriber), then the inner child, down to the collector.
\* The first component of the requested type is returned and nothing after it
\* is asked, so of several subscribers of the requested type the one added
\* last is found.
C17_FirstMatchWins ==
    op.name = "downcast_raw" =>
        LET order == SearchOrder(chain)
            first == FirstMatch(order, op.args[1], env.ty)
            upto == IF first = 0 THEN Len(order) ELSE first
            leaves == SelectSeq(SubSeq(order, 1, upto),
                                LAMBDA n : n.kind \in {"Subscriber", "Collector"})
        IN /\ result = IF first = 0 THEN None ELSE Some(order[first])
           /\ Len(log) = Len(leaves)
           /\ \A k \in 1..Len(log) :
                 log[k].who = IF leaves[k].kind = "Collector" THEN 0 ELSE leaves[k].id
           /\ \A i \in Observers(chain) :
                 op.args[1] = <<env.ty[i]>> =>
                    /\ result[1].kind = "Subscriber"
                    /\ \A j \in Observers(chain) :
                          env.ty[j] = env.ty[i] => j <= result[1].id

\* Subscribers 1 and 3 have the requested type: 3, added last, was found and
\* neither 2 nor 1 was asked.
C17_Witness ==
    /\ op.name = "downcast_raw"
    /\ chain \in Chains
    /\ Observers(chain) = {1, 2, 3}
    /\ env.ty[1] = env.ty[3]
    /\ op.args[1] = <<env.ty[1]>>
    /\ result = Some(Subscriber(3))
    /\ Len(log) = 1

----------------------------------------------------------------------------
\* Properties of optional subscribers (SpecOption) and of default subscribers
\* (SpecDefault).

\* What the call `o` on the outermost node `node` does when the participants
\* answer as `m` says and the collector is in state `c`; `fresh` tells whether
\* the collector gives a clone a new id.
Outcome(node, m, c, o, fresh) ==
    CASE o.name = "register_callsite" -> Collect_register_callsite(node, m)
      [] o.name = "enabled" -> Collect_enabled(node, m)
      [] o.name = "max_level_hint" -> Collect_max_level_hint(node, m)
      [] o.name = "new_span" -> Collect_new_span(node, c, o.args[1])
      [] o.name = "clone_span" -> Collect_clone_span(node, c, o.args[1], fresh)
      [] o.name = "try_close" -> Collect_try_close(node, c, o.args[1])
      [] o.name = "drop_span" -> Collect_drop_span(node, c, o.args[1])
      [] o.name = "current_span" -> Collect_current_span(node, c)
      [] OTHER -> Collect_forward(node, c, o.name, o.args)

\* The log with every Context rewritten by f, a map on trees.
OnContexts(l, f(_)) ==
    [k \in 1..Len(l) |->
        IF "ctx" \in DOMAIN l[k] /\ l[k].ctx.subscriber # None
        THEN [l[k] EXCEPT !.ctx = [subscriber |-> Some(f(l[k].ctx.subscriber[1]))]]
        ELSE l[k]]

\* The log without the calls received by the participants in `ids`.
Without(l, ids) == SelectSeq(l, LAMBDA e : e.who \notin ids)

\* The tree with every Option replaced by a plain subscriber: the wrapped one,
\* or one standing for Identity where the Option is None.
RECURSIVE Unwrapped(_)
Unwrapped(node) ==
    CASE node.kind = "Option" -> Subscriber(node.id)
      [] node.kind = "Layered" ->
            Layered(Unwrapped(node.subscriber), Unwrapped(node.inner))
      [] OTHER -> node

\* The answers m, with the participants in `ids` answering as Identity does:
\* every method is the trait's default.
AsIdentity(m, ids) ==
    [rc |-> [i \in DOMAIN m.rc \cup ids |-> IF i \in ids THEN "default" ELSE m.rc[i]],
     en |-> [i \in DOMAIN m.en \cup ids |-> IF i \in ids THEN TRUE ELSE m.en[i]],
     crc |-> m.crc,
     cen |-> m.cen,
     hint |-> [p \in DOMAIN m.hint \cup ids |-> IF p \in ids THEN None ELSE m.hint[p]]]

\* The tree with every None left out; Omitted when nothing remains.
Omitted == [kind |-> "Omitted"]

RECURSIVE Omit(_)
Omit(node) ==
    CASE node.kind = "Option" -> IF node.inner = None THEN Omitted ELSE node
      [] node.kind = "Layered" ->
            LET s == Omit(node.subscriber)
                i == Omit(node.inner)
            IN IF s.kind = "Omitted" THEN i
               ELSE IF i.kind = "Omitted" THEN s
               ELSE Layered(s, i)
      [] OTHER -> node

FilterCalls == {"register_callsite", "enabled", "max_level_hint"}

\* C18: a chain with None at some position behaves as the chain built without
\* that position: every call returns the same result, register_callsite,
\* enabled and max_level_hint included, and in every span or event call the
\* remaining subscribers and the collector receive the same calls.
C18_NoneIsOmitted ==
    [][LET same == Outcome(Omit(chain), env, col, op', col'.next # col.next)
       IN /\ result' = same.ret
          /\ op'.name \notin FilterCalls => OnContexts(log', Omit) = same.log]_vars

\* C19: an Option holding a subscriber behaves as that subscriber, and an
\* Option holding None as Identity: in every call the chain returns what it
\* returns with the plain subscriber, or Identity, in the Option's place, and
\* the subscribers receive the same calls, each once; None receives nothing.
C19_OptionIsWrappedOrIdentity ==
    [][LET same == Outcome(Unwrapped(chain), AsIdentity(env, Absent(chain)), col,
                           op', col'.next # col.next)
       IN /\ result' = same.ret
          /\ OnContexts(log', Unwrapped) = Without(same.log, Absent(chain))]_vars

\* A chain of two positions, one of them None, passed an event on: the one
\* subscriber and the collector received it.
C19_Witness ==
    /\ Absent(chain) # {}
    /\ Cardinality(Observers(chain)) = 1
    /\ op.name = "event"
    /\ Len(log) = 2

\* The calls of a log that the collector received.
ToCollector(l) == SelectSeq(l, LAMBDA e : e.who = 0)

\* A chain of plain subscribers that all take the trait's defaults.
Defaults(node, m) ==
    /\ Unwrapped(node) = node
    /\ \A i \in Observers(node) :
          m.rc[i] = "default" /\ m.en[i] /\ m.hint[i] = None

\* The call `o` made on the bare collector.
Direct(m, c, o, fresh) ==
    IF o.name = "drop_span"
    THEN [log |-> <<Call(0, "drop_span", o.args, Unit)>>, ret |-> Unit, col |-> c]
    ELSE Outcome(Collector, m, c, o, fresh)

----------------------------------------------------------------------------
\* Properties of the filtering calls (SpecFilter).

\* C26: register_callsite and enabled go down a sealed chain from the
\* subscriber added last to the collector: whoever is asked, every participant
\* above it was asked before and did not veto.
C26_AskedTopDown ==
    op.name \in {"register_callsite", "enabled"} =>
        \A k \in 1..Len(log) :
            log[k].method = op.name =>
                \A q \in Observers(chain) :
                    q > log[k].who =>
                        \E j \in 1..(k - 1) :
                            /\ log[j].who = q
                            /\ log[j].method = op.name
                            /\ IF op.name = "enabled" THEN log[j].ret = TRUE
                               ELSE log[j].ret # "never"

\* C23: a subscriber that does not override register_callsite answers Always
\* when its enabled, called with the empty context, returns true and Never when
\* it returns false; it never answers Sometimes.
C23_DefaultInterestFromEnabled ==
    \A k \in 1..Len(log) :
        (/\ log[k].method = "register_callsite"
         /\ log[k].who # 0
         /\ env.rc[log[k].who] = "default")
        => /\ k < Len(log)
           /\ log[k + 1].who = log[k].who
           /\ log[k + 1].method = "enabled"
           /\ log[k + 1].ctx = Context_none
           /\ log[k].ret = IF log[k + 1].ret THEN "always" ELSE "never"

\* Of two subscribers that take the default, the outer one's enabled said true
\* and the inner one's false: Always, then Never.
C23_Witness ==
    /\ op.name = "register_callsite"
    /\ \E j, k \in 1..Len(log) :
          /\ j < k
          /\ log[j].method = "register_callsite" /\ log[k].method = "register_callsite"
          /\ log[j].who # 0 /\ log[k].who # 0
          /\ env.rc[log[j].who] = "default" /\ env.rc[log[k].who] = "default"
          /\ log[j].ret = "always" /\ log[k].ret = "never"

\* register_callsite of a node of the chain, in the mode the node is used in.
RegisterCallsiteOf(node, m) ==
    IF IsCollect(node) THEN Collect_register_callsite(node, m)
    ELSE Subscribe_register_callsite(node, m)

\* What register_callsite of `node` did in the current state: the outermost
\* node's call is the one in `log`.
RegisteredAt(node) ==
    IF node = chain THEN Returns(log, result) ELSE RegisterCallsiteOf(node, env)

\* The leaves of `tree` that `l` shows a call on.
Asked(l, tree) == {k \in 1..Len(l) : l[k].who \in Participants(tree)}

\* C3: in register_callsite of a composition node, sealed or nested, when the
\* outer participant (node.subscriber) returns Never the inner participant is
\* not asked and the node returns Never.
C3_NeverShortCircuits ==
    op.name = "register_callsite" =>
        \A node \in Nodes(chain) :
            RegisterCallsiteOf(node.subscriber, env).ret = "never"
            => /\ RegisteredAt(node).ret = "never"
               /\ Asked(RegisteredAt(node).log, node.inner) = {}

\* The outer subscriber vetoed a callsite the collector would have taken.
C3_Witness ==
    /\ op.name = "register_callsite"
    /\ RegisterCallsiteOf(chain.subscriber, env).ret = "never"
    /\ env.crc = "always"
    /\ result = "never"
    /\ CallsOf(log, 0, "register_callsite") = {}

C5_AlwaysDefers ==
    op.name = "register_callsite" =>
        \A node \in {n \in Nodes(chain) : IsCollect(n)} :
            LET outer == RegisterCallsiteOf(node.subscriber, env)
                inner == RegisterCallsiteOf(node.inner, env)
            IN outer.ret = "always"
               => /\ RegisteredAt(node).ret = inner.ret
                  /\ RegisteredAt(node).log = outer.log \o inner.log
                  /\ node.inner = Collector
                     => /\ Cardinality(CallsOf(RegisteredAt(node).log, 0,
                                               "register_callsite")) = 1
                        /\ RegisteredAt(node).ret = env.crc

\* Both subscribers of A.and_then(B) said Always; the collector said Sometimes.
C5_Witness ==
    /\ op.name = "register_callsite"
    /\ chain = with_collector(and_then(Subscriber(1), Subscriber(2)), Collector)
    /\ env.rc[1] = "always" /\ env.rc[2] = "always" /\ env.crc = "sometimes"
    /\ Cardinality(CallsOf(log, 0, "register_callsite")) = 1
    /\ result = "sometimes"

\* What enabled of a sealed node did in the current state.
EnabledAt(node) ==
    IF node = chain THEN Returns(log, result) ELSE Collect_enabled(node, env)

\* C6: in enabled of a sealed node the wrapping subscriber's enabled is called
\* first, with a context that views the node's inner value; if it returns false
\* the collector is not asked and the node returns false; if it returns true
\* the node returns what the collector's enabled returns.
C6_EnabledDefers ==
    op.name = "enabled" =>
        \A node \in {n \in Nodes(chain) : IsCollect(n)} :
            LET outer == Subscribe_enabled(node.subscriber, env, ctx(node))
                whole == EnabledAt(node)
            IN /\ whole.log[1].who \in Observers(node.subscriber)
               /\ whole.log[1].method = "enabled"
               /\ whole.log[1].ctx.subscriber = Some(node.inner)
               /\ ~outer.ret => ~whole.ret /\ Asked(whole.log, node.inner) = {}
               /\ outer.ret => whole.ret = Collect_enabled(node.inner, env).ret

\* The subscriber said false about metadata the collector would have enabled.
C6_Witness ==
    /\ op.name = "enabled"
    /\ chain = with_collector(Subscriber(1), Collector)
    /\ ~env.en[1] /\ env.cen
    /\ log[1].ctx # Context_none
    /\ Len(log) = 1
    /\ result = FALSE

\* C7: in a sealed chain of any depth, built either way, if any subscriber's
\* enabled returns false for the metadata, the chain's enabled returns false.
C7_AnyObserverVetoes ==
    op.name = "enabled" =>
        ((\E i \in Observers(chain) : ~env.en[i]) => result = FALSE)

\* The Interest that leaf subscriber i returns from register_callsite.
InterestOf(i) == Leaf_register_callsite(Subscriber(i), env).ret

HintOf(node) ==
    IF IsCollect(node) THEN Collect_max_level_hint(node, env).ret
    ELSE Subscribe_max_level_hint(node, env).ret

\* h is the larger of a and b, with None below every level.
IsMaxHint(h, a, b) ==
    /\ a = None => h = b
    /\ b = None => h = a
    /\ a # None /\ b # None
       => /\ h \in {a, b}
          /\ LevelRank(h[1]) >= LevelRank(a[1])
          /\ LevelRank(h[1]) >= LevelRank(b[1])

\* C9: max_level_hint of a sealed node is the larger of the subscriber's hint
\* and the collector's hint, no hint being below every level.
C9_HintIsMax ==
    op.name = "max_level_hint" =>
        \A node \in {n \in Nodes(chain) : IsCollect(n)} :
            IsMaxHint(IF node = chain THEN result ELSE HintOf(node),
                      HintOf(node.subscriber), HintOf(node.inner))

\* A subscriber with no hint on a collector whose hint is WARN.
C9_Witness ==
    /\ op.name = "max_level_hint"
    /\ chain = with_collector(Subscriber(1), Collector)
    /\ env.hint[1] = None /\ env.hint[0] = Some("WARN")
    /\ result = Some("WARN")

\* C10: max_level_hint of a nested node is the larger of its two children's
\* hints, and the sealed chain built on it reports at least that.
C10_NestedHintIsMax ==
    op.name = "max_level_hint" =>
        \A node \in {n \in Nodes(chain) : ~IsCollect(n)} :
            /\ IsMaxHint(HintOf(node), HintOf(node.subscriber), HintOf(node.inner))
            /\ \A i \in Observers(node) : OptionLe(env.hint[i], result)

====
